---- MODULE Spec2Model ----
(***************************************************************************)
(* The session protocol core of the two exchange clients:                  *)
(*   TradingBot   (src/my_algo.py)       - automated, paced by DONE        *)
(*   ManualTrader (src/manual_trader.py) - interactive                     *)
(* One behaviour runs one of the two programs (client).  A session has     *)
(* three execution contexts: the main thread (register, connect, run loop, *)
(* shutdown), the market-data listener and the order listener.  The market *)
(* handler of TradingBot is split at its two sends (mkt_pc), so that the   *)
(* order listener and channel closes interleave with it.                   *)
(*                                                                         *)
(* Prices are whole numbers of price units; bids and asks are drawn even   *)
(* so that the mid (bid + ask) / 2 is exact.  Time is a whole number of    *)
(* seconds read from the clock `now`.                                      *)
(***************************************************************************)
EXTENDS Integers, Sequences, FiniteSets, TLC

\* ---- bounds of the model
MaxEvents == 3          \* events of the environment: messages delivered on the
                        \* two channels, clock ticks, connections lost,
                        \* command lines typed

VARIABLES
    client,             \* which program runs: "bot" | "manual"
    main_pc,            \* main thread: start | registered | running | exit | finished
    http_resp,          \* the registration response received (NoResponse before)
    reg_result,         \* what register() returned: pending | ok | failed
    token, run_id,      \* Session fields
    market_ws, order_ws,\* channel: None | created | open | closed
    running,
    inventory, cash_flow, pnl,
    current_step, orders_sent,
    last_bid, last_ask, last_mid,
    history,            \* history_steps/mids/bids/asks, one record per tick
    last_done_time, step_latencies,
    order_send_times, fill_latencies,
    now,                \* time.time()
    mkt_pc,             \* market handler of TradingBot: idle | order | send | done
    mkt_order,          \* the order the handler is about to send
    mkt_id,             \* _send_order: its local order_id (NoId outside it)
    wire,               \* messages handed to the order channel, in order
    mkt_log,            \* one entry per message delivered on the market channel
    fills_rx,           \* payloads of the FILL messages delivered, in order
    ord_rx,             \* number of messages delivered on the order channel
    last_snapshot_hash, \* ManualTrader: fingerprint of the book last displayed
    displays,           \* ManualTrader: number of calls of display_book
    last_book,          \* ManualTrader: the book message delivered last
    cmds                \* ManualTrader: number of command lines read

vars == <<client, main_pc, http_resp, reg_result, token, run_id, market_ws,
          order_ws, running, inventory, cash_flow, pnl, current_step,
          orders_sent, last_bid, last_ask, last_mid, history, last_done_time,
          step_latencies, order_send_times, fill_latencies, now, mkt_pc,
          mkt_order, mkt_id, wire, mkt_log, fills_rx, ord_rx, last_snapshot_hash,
          displays, last_book, cmds>>

sessionVars == <<http_resp, reg_result, token, run_id>>
ledgerVars == <<inventory, cash_flow, pnl>>
marketVars == <<current_step, last_bid, last_ask, last_mid, history>>
latencyVars == <<last_done_time, step_latencies, order_send_times, fill_latencies>>
handlerVars == <<mkt_pc, mkt_order, mkt_id, wire, mkt_log>>
manualVars == <<last_snapshot_hash, displays, last_book, cmds>>

\* ---- values
NoneStr == "None"               \* Python None in a string-valued field
NoneTime == -1                  \* Python None in last_done_time
BadValue == -999                \* a field holding a value of the wrong type
MsPerSecond == 1000
HttpOk == 200
TradeEvery == 50
InventoryLimit == 200
OrderQty == 100

Truthy(s) == s \notin {NoneStr, ""}

\* the events of the environment so far, and whether the model admits another
Events ==
    Len(mkt_log) + ord_rx + now + cmds
    + (IF market_ws = "closed" THEN 1 ELSE 0) + (IF order_ws = "closed" THEN 1 ELSE 0)
Budget == Events < MaxEvents

\* ---- pure functions

MidPrice_NoFallback(bid, ask) ==
    IF bid > 0 /\ ask > 0 THEN (bid + ask) \div 2 ELSE 0

\* lines 194-201: the mid price of a tick
MidPrice(bid, ask) ==
    IF bid > 0 /\ ask > 0 THEN (bid + ask) \div 2
    ELSE IF bid > 0 THEN bid
    ELSE IF ask > 0 THEN ask
    ELSE 0

\* round(x, 2): prices of the model are whole numbers, which it leaves alone
Round2(x) == x

NoOrder == [side |-> "NONE", price |-> 0, qty |-> 0]
NoId == <<>>

decide_order_EveryStep(bid, ask, mid, step, inv) ==
    IF mid <= 0 \/ bid <= 0 \/ ask <= 0 THEN NoOrder
    ELSE [side |-> "BUY", price |-> ask, qty |-> OrderQty]

\* decide_order, with the fields of self it reads (current_step, inventory)
decide_order(bid, ask, mid, step, inv) ==
    IF mid <= 0 \/ bid <= 0 \/ ask <= 0 THEN NoOrder
    ELSE IF step % TradeEvery # 0 THEN NoOrder
    ELSE IF inv > InventoryLimit
        THEN [side |-> "SELL", price |-> Round2(bid), qty |-> OrderQty]
    ELSE IF inv < -InventoryLimit
        THEN [side |-> "BUY", price |-> Round2(ask), qty |-> OrderQty]
    ELSE IF (step \div TradeEvery) % 2 = 0
        THEN [side |-> "BUY", price |-> Round2(ask), qty |-> OrderQty]
    ELSE [side |-> "SELL", price |-> Round2(bid), qty |-> OrderQty]

\* str(n) of a natural number, one character per element
DigitChar == <<"0", "1", "2", "3", "4", "5", "6", "7", "8", "9">>

RECURSIVE Str(_)
Str(n) ==
    IF n < 10 THEN <<DigitChar[n + 1]>>
    ELSE Str(n \div 10) \o <<DigitChar[(n % 10) + 1]>>

StudentId == "team"

OrderId_NoSeq(step, sent) == <<"ORD_", StudentId, "_">> \o Str(step)

\* line 257: f"ORD_{student_id}_{current_step}_{orders_sent}"
OrderId(step, sent) ==
    <<"ORD_", StudentId, "_">> \o Str(step) \o <<"_">> \o Str(sent)

\* an order_id this session never generates
ForeignId == <<"EXT_", "1">>

EmptyTable == [k \in {} |-> 0]
Put(tbl, k, v) == [x \in (DOMAIN tbl) \cup {k} |-> IF x = k THEN v ELSE tbl[x]]
Del(tbl, k) == [x \in (DOMAIN tbl) \ {k} |-> tbl[x]]

\* ---- the book fingerprint of ManualTrader

TopN == 10

\* levels[:n]
Take(levels, n) == SubSeq(levels, 1, IF Len(levels) < n THEN Len(levels) ELSE n)

NoHash == [bids |-> <<>>, asks |-> <<>>, last |-> -1, step |-> -1]
NoBook == [type |-> "NONE", step |-> 0, bids |-> <<>>, asks |-> <<>>,
           last_trade |-> 0, bad |-> "none"]

SnapshotHash_BidsOnly(m) ==
    [bids |-> Take(m.bids, TopN), asks |-> <<>>, last |-> m.last_trade,
     step |-> m.step]

\* lines 83-88: json.dumps of the top 10 levels of each side, the last
\* trade and the step
SnapshotHash(m) ==
    [bids |-> Take(m.bids, TopN), asks |-> Take(m.asks, TopN),
     last |-> m.last_trade, step |-> m.step]

\* ---- registration

NoResponse == [status |-> 0, token |-> NoneStr, run_id |-> NoneStr]

\* what the server may answer; a request that raises is NoResponse
Responses ==
    [status : {HttpOk, 401}, token : {NoneStr, "tok"}, run_id : {NoneStr, "run"}]

\* TradingBot.register: [ok, token, run_id] after the response r
BotRegister(r) ==
    IF r = NoResponse THEN [ok |-> FALSE, token |-> token, run_id |-> run_id]
    ELSE IF r.status # HttpOk THEN [ok |-> FALSE, token |-> token, run_id |-> run_id]
    ELSE [ok |-> Truthy(r.token) /\ Truthy(r.run_id),
          token |-> r.token, run_id |-> r.run_id]

\* ManualTrader.register
ManualRegister(r) ==
    IF r = NoResponse THEN [ok |-> FALSE, token |-> token, run_id |-> run_id]
    ELSE IF r.status # HttpOk THEN [ok |-> FALSE, token |-> token, run_id |-> run_id]
    ELSE [ok |-> TRUE, token |-> r.token, run_id |-> r.run_id]

RunAfterRegister_Ignored(ok) == "registered"

\* run / start: `if not self.register(): return`
RunAfterRegister(ok) == IF ok THEN "registered" ELSE "exit"

Init ==
    /\ client \in {"bot", "manual"}
    /\ main_pc = "start"
    /\ http_resp = NoResponse
    /\ reg_result = "pending"
    /\ token = NoneStr
    /\ run_id = NoneStr
    /\ market_ws = "None"
    /\ order_ws = "None"
    /\ running = TRUE
    /\ inventory = 0
    /\ cash_flow = 0
    /\ pnl = 0
    /\ current_step = 0
    /\ orders_sent = 0
    /\ last_bid = 0
    /\ last_ask = 0
    /\ last_mid = 0
    /\ history = <<>>
    /\ last_done_time = NoneTime
    /\ step_latencies = <<>>
    /\ order_send_times = EmptyTable
    /\ fill_latencies = <<>>
    /\ now = 0
    /\ mkt_pc = "idle"
    /\ mkt_order = NoOrder
    /\ mkt_id = NoId
    /\ wire = <<>>
    /\ mkt_log = <<>>
    /\ fills_rx = <<>>
    /\ ord_rx = 0
    /\ last_snapshot_hash = NoHash
    /\ displays = 0
    /\ last_book = NoBook
    /\ cmds = 0

\* ---- main thread

\* run / start, first step: register() and the return on failure
Register ==
    /\ main_pc = "start"
    /\ \E r \in Responses \cup {NoResponse} :
        LET res == IF client = "bot" THEN BotRegister(r) ELSE ManualRegister(r) IN
        /\ http_resp' = r
        /\ reg_result' = IF res.ok THEN "ok" ELSE "failed"
        /\ token' = res.token
        /\ run_id' = res.run_id
        /\ main_pc' = RunAfterRegister(res.ok)
    /\ UNCHANGED <<client, manualVars, market_ws, order_ws, running, ledgerVars, marketVars,
                   orders_sent, latencyVars, now, handlerVars, fills_rx, ord_rx>>

\* connect (TradingBot) / the channel set-up of start (ManualTrader): both
\* WebSocketApps are created and their listener threads started
Connect ==
    /\ main_pc = "registered"
    /\ market_ws' = "created"
    /\ order_ws' = "created"
    /\ main_pc' = "running"
    /\ UNCHANGED <<client, manualVars, sessionVars, running, ledgerVars, marketVars,
                   orders_sent, latencyVars, now, handlerVars, fills_rx, ord_rx>>

\* the finally block of run / start, entered when the loop sees running
\* cleared, on quit or EOF, or on KeyboardInterrupt
Shutdown ==
    /\ main_pc = "running"
    /\ running' = FALSE
    /\ market_ws' = "closed"
    /\ order_ws' = "closed"
    /\ main_pc' = "finished"
    /\ UNCHANGED <<client, manualVars, sessionVars, ledgerVars, marketVars, orders_sent,
                   latencyVars, now, handlerVars, fills_rx, ord_rx>>

\* ---- listener threads: connection state

\* run_forever connects the socket
MarketOpen ==
    /\ market_ws = "created"
    /\ market_ws' = "open"
    /\ UNCHANGED <<client, manualVars, main_pc, sessionVars, order_ws, running, ledgerVars,
                   marketVars, orders_sent, latencyVars, now, handlerVars,
                   fills_rx, ord_rx>>

OrderOpen ==
    /\ order_ws = "created"
    /\ order_ws' = "open"
    /\ UNCHANGED <<client, manualVars, main_pc, sessionVars, market_ws, running, ledgerVars,
                   marketVars, orders_sent, latencyVars, now, handlerVars,
                   fills_rx, ord_rx>>

\* _on_close clears running in TradingBot; on_close of ManualTrader only prints
RunningAfterClose(c, r) == IF c = "bot" THEN FALSE ELSE r

\* the connection fails or is closed by the peer: _on_error, then _on_close.
\* The callbacks of a channel run on its listener thread, so the market
\* channel's close is not seen while its message handler is running
MarketClose ==
    /\ market_ws \in {"created", "open"}
    /\ mkt_pc = "idle"
    /\ Budget
    /\ market_ws' = "closed"
    /\ running' = RunningAfterClose(client, running)
    /\ UNCHANGED <<client, manualVars, main_pc, sessionVars, order_ws, ledgerVars,
                   marketVars, orders_sent, latencyVars, now, handlerVars,
                   fills_rx, ord_rx>>

OrderClose ==
    /\ order_ws \in {"created", "open"}
    /\ Budget
    /\ order_ws' = "closed"
    /\ running' = RunningAfterClose(client, running)
    /\ UNCHANGED <<client, manualVars, main_pc, sessionVars, market_ws, ledgerVars,
                   marketVars, orders_sent, latencyVars, now, handlerVars,
                   fills_rx, ord_rx>>

\* the clock advances
Advance ==
    /\ Budget
    /\ now' = now + 1
    /\ UNCHANGED <<client, manualVars, main_pc, sessionVars, market_ws, order_ws, running,
                   ledgerVars, marketVars, orders_sent, latencyVars,
                   handlerVars, fills_rx, ord_rx>>

\* ---- market-data listener of TradingBot

\* the ticks of the model: at a trading step (a multiple of 50) every
\* combination of a present or absent best bid and ask; with both present,
\* a trading step of the other parity and a step that is no trading step
Ticks ==
    [step : {50}, bid : {0, 10}, ask : {0, 12}]
    \cup [step : {0, 7}, bid : {10}, ask : {12}]
TickTypes == {"SNAPSHOT", "MARKET_DATA"}

\* the messages the market channel may deliver.  bad names what is malformed:
\* the body (undecodable), or one field holding a value of the wrong type
MarketMsgs ==
    {[type |-> ty, step |-> t.step, bid |-> t.bid, ask |-> t.ask, bad |-> "none"] :
        ty \in TickTypes, t \in Ticks}
    \cup {[type |-> "CONNECTED", step |-> 0, bid |-> 0, ask |-> 0, bad |-> "none"]}
    \cup [type : {"HEARTBEAT"}, step : {50}, bid : {10}, ask : {12}, bad : {"none"}]
    \cup [type : {"SNAPSHOT"}, step : {50}, bid : {10}, ask : {12},
          bad : {"body", "step", "bid"}]

Field(m, f) == IF m.bad = f THEN BadValue ELSE m[f]

NextPc_DoneFirst(pc, want) ==
    CASE pc = "idle" -> "done"
      [] pc = "done" -> IF want THEN "order" ELSE "idle"
      [] pc = "order" -> "send"
      [] pc = "send" -> "idle"

\* the order of the handler's steps, lines 213-219: the order (when one is
\* to be sent; _send_order takes two steps), then DONE
NextPc(pc, want) ==
    CASE pc = "idle" -> IF want THEN "order" ELSE "done"
      [] pc = "order" -> "send"
      [] pc = "send" -> "done"
      [] pc = "done" -> "idle"

\* WebSocketApp.send raises unless the socket is connected
SendOk(ws) == ws = "open"

\* line 215: self.order_ws and self.order_ws.sock
BelievedOpen(ws) == ws = "open"

\* _on_market_data, lines 170-215: decode, sample the step latency, take the
\* tick's fields, compute the mid, record the history, ask the strategy
MarketData(m) ==
        /\ mkt_log' = Append(mkt_log,
               [tick |-> m.type \in TickTypes, bad |-> m.bad,
                decided |-> /\ m.bad = "none"
                            /\ m.type # "CONNECTED"
                            /\ decide_order(m.bid, m.ask, MidPrice(m.bid, m.ask),
                                            m.step, inventory) # NoOrder,
                sock |-> "unsent"])
        /\ IF m.bad = "body" \/ m.type = "CONNECTED"
           THEN UNCHANGED <<marketVars, step_latencies, mkt_pc, mkt_order, mkt_id>>
           ELSE /\ step_latencies' =
                      IF last_done_time # NoneTime
                      THEN Append(step_latencies, (now - last_done_time) * MsPerSecond)
                      ELSE step_latencies
                /\ current_step' = Field(m, "step")
                /\ last_bid' = Field(m, "bid")
                /\ last_ask' = Field(m, "ask")
                /\ IF m.bad # "none"
                   THEN UNCHANGED <<last_mid, history, mkt_pc, mkt_order, mkt_id>>
                   ELSE LET mid == MidPrice(m.bid, m.ask)
                            order == decide_order(m.bid, m.ask, mid, m.step, inventory)
                            want == order # NoOrder /\ BelievedOpen(order_ws)
                        IN /\ last_mid' = mid
                           /\ history' = Append(history,
                                  [step |-> m.step, mid |-> mid, bid |-> m.bid, ask |-> m.ask])
                           /\ mkt_order' = IF want THEN order ELSE NoOrder
                           /\ mkt_id' = NoId
                           /\ mkt_pc' = NextPc("idle", want)
        /\ UNCHANGED <<client, manualVars, main_pc, sessionVars, market_ws,
                       order_ws, running, ledgerVars, orders_sent,
                       last_done_time, order_send_times, fill_latencies, now,
                       wire, fills_rx, ord_rx>>

OnMarketData ==
    /\ client = "bot"
    /\ market_ws = "open"
    /\ mkt_pc = "idle"
    /\ Budget
    /\ \E m \in MarketMsgs : MarketData(m)

\* the NEW_ORDER message of _send_order, lines 259-264
OrderMsg(id, o) ==
    [order_id |-> id, side |-> o.side, price |-> o.price, qty |-> o.qty]

SendOrderStep_SendFirst(pc) == IF pc = "order" THEN "send" ELSE "stamp"

\* the two steps of the try block of _send_order: line 267 enters the send
\* time in the pending table, then line 268 sends
SendOrderStep(pc) == IF pc = "order" THEN "stamp" ELSE "send"

\* _send_order, one step of it: the order_id is built on entry (line 257);
\* the send time is recorded (line 267); the message is sent and orders_sent
\* counted (lines 268-269).  A send that raises is caught and printed, and
\* the rest of the try block is skipped
SendOrder ==
    /\ mkt_pc \in {"order", "send"}
    /\ LET id == IF mkt_pc = "order" THEN OrderId(current_step, orders_sent)
                 ELSE mkt_id
           raised == SendOrderStep(mkt_pc) = "send" /\ ~SendOk(order_ws)
       IN
        /\ IF SendOrderStep(mkt_pc) = "stamp"
           THEN /\ order_send_times' = Put(order_send_times, id, now)
                /\ UNCHANGED <<wire, orders_sent>>
           ELSE /\ IF SendOk(order_ws)
                   THEN /\ wire' = Append(wire, [tick |-> Len(mkt_log),
                                                 msg |-> OrderMsg(id, mkt_order)])
                        /\ orders_sent' = orders_sent + 1
                   ELSE UNCHANGED <<wire, orders_sent>>
                /\ UNCHANGED order_send_times
        /\ mkt_pc' = IF raised THEN NextPc("send", TRUE) ELSE NextPc(mkt_pc, TRUE)
        /\ mkt_id' = IF mkt_pc = "order" /\ ~raised THEN id ELSE NoId
    /\ mkt_order' = IF mkt_pc' = "idle" THEN NoOrder ELSE mkt_order
    /\ UNCHANGED <<client, manualVars, main_pc, sessionVars, market_ws, order_ws, running,
                   ledgerVars, marketVars, last_done_time, step_latencies,
                   fill_latencies, now, mkt_log, fills_rx, ord_rx>>

DoneMsgs_Twice(t) ==
    <<[tick |-> t, msg |-> [action |-> "DONE"]],
      [tick |-> t, msg |-> [action |-> "DONE"]]>>

\* line 276: what one _send_done hands to the order channel
DoneMsgs(t) == <<[tick |-> t, msg |-> [action |-> "DONE"]]>>

\* _send_done: DONE is sent and its time kept; a send that raises is dropped
SendDone ==
    /\ mkt_pc = "done"
    /\ IF SendOk(order_ws)
       THEN /\ wire' = wire \o DoneMsgs(Len(mkt_log))
            /\ last_done_time' = now
       ELSE UNCHANGED <<wire, last_done_time>>
    /\ mkt_log' = [mkt_log EXCEPT ![Len(mkt_log)].sock = order_ws]
    /\ mkt_pc' = NextPc("done", mkt_order # NoOrder)
    /\ mkt_order' = IF mkt_pc' = "idle" THEN NoOrder ELSE mkt_order
    /\ mkt_id' = NoId
    /\ UNCHANGED <<client, manualVars, main_pc, sessionVars, market_ws, order_ws, running,
                   ledgerVars, marketVars, orders_sent, step_latencies,
                   order_send_times, fill_latencies, now, fills_rx, ord_rx>>

\* ---- order listener

\* the (qty, price) pairs a FILL may carry
Trades == {[qty |-> 100, price |-> 10], [qty |-> 50, price |-> 11]}

\* the payloads a FILL may carry.  bad names a field that is null or of the
\* wrong type (the other fields are as given)
FillPayloads ==
    {[side |-> sd, qty |-> t.qty, price |-> t.price, bad |-> "none"] :
        sd \in {"BUY", "SELL"}, t \in Trades}
    \cup [side : {"BUY"}, qty : {100}, price : {10}, bad : {"qty", "price"}]

\* the order_ids of the orders handed to the order channel so far
SentIds ==
    {wire[i].msg.order_id : i \in {j \in DOMAIN wire : "side" \in DOMAIN wire[j].msg}}

\* the order_ids a FILL may name: sent, pending, or foreign to the session
FillIds == SentIds \cup (DOMAIN order_send_times) \cup {ForeignId}

OrderMsgs ==
    {[type |-> "FILL", order_id |-> id, side |-> f.side, qty |-> f.qty,
      price |-> f.price, bad |-> f.bad] : id \in FillIds, f \in FillPayloads}
    \cup {[type |-> t, order_id |-> ForeignId, side |-> "NONE", qty |-> 0,
           price |-> 0, bad |-> "none"] : t \in {"AUTHENTICATED", "ERROR"}}
    \cup {[type |-> "PARTIAL_FILL", order_id |-> ForeignId, side |-> "BUY",
           qty |-> 100, price |-> 10, bad |-> "none"]}

Payload(m) ==
    [side |-> m.side, qty |-> m.qty, price |-> m.price, bad |-> m.bad,
     order_id |-> m.order_id]

IsFill_Always(type) == TRUE

IsFill_AnyFill(type) == type \in {"FILL", "PARTIAL_FILL"}

\* line 291: elif msg_type == "FILL"
IsFill(type) == type = "FILL"

NewInventory_AlwaysAdd(inv, side, qty) == inv + qty

\* lines 302-306
NewInventory(inv, side, qty) == IF side = "BUY" THEN inv + qty ELSE inv - qty

\* lines 304, 307
NewCashFlow(cash, side, qty, price) ==
    IF side = "BUY" THEN cash - qty * price ELSE cash + qty * price

MarkToMarket_NoCash(cash, inv, mid) == inv * mid

\* line 309
MarkToMarket(cash, inv, mid) == cash + inv * mid

\* lines 302-309 on the FILL m: the ledger after it.  A bad qty raises at
\* line 303/306 before anything is written; a bad price raises at line
\* 304/307, after inventory is written.  The exception is caught (line 316).
FillLedger(m) ==
    LET inv == NewInventory(inventory, m.side, m.qty)
        cash == NewCashFlow(cash_flow, m.side, m.qty, m.price)
    IN  CASE m.bad = "qty" ->
               [inventory |-> inventory, cash_flow |-> cash_flow, pnl |-> pnl]
          [] m.bad = "price" ->
               [inventory |-> inv, cash_flow |-> cash_flow, pnl |-> pnl]
          [] OTHER ->
               [inventory |-> inv, cash_flow |-> cash,
                pnl |-> MarkToMarket(cash, inv, last_mid)]

FillCorrelation_Default(m) ==
    [order_send_times |-> Del(order_send_times, m.order_id),
     fill_latencies |-> Append(fill_latencies,
         IF m.order_id \in DOMAIN order_send_times
         THEN (now - order_send_times[m.order_id]) * MsPerSecond ELSE 0)]

\* lines 297-300 on the FILL m: the pending table and the FILL samples after it
FillCorrelation(m) ==
    IF m.order_id \in DOMAIN order_send_times
    THEN [order_send_times |-> Del(order_send_times, m.order_id),
          fill_latencies |-> Append(fill_latencies,
              (now - order_send_times[m.order_id]) * MsPerSecond)]
    ELSE [order_send_times |-> order_send_times, fill_latencies |-> fill_latencies]

FillEffect_MatchedOnly(m) ==
    IF m.order_id \in DOMAIN order_send_times
    THEN [ledger |-> FillLedger(m), corr |-> FillCorrelation(m)]
    ELSE [ledger |-> [inventory |-> inventory, cash_flow |-> cash_flow, pnl |-> pnl],
          corr |-> FillCorrelation(m)]

\* lines 291-309: the FILL branch of _on_order_response
FillEffect(m) == [ledger |-> FillLedger(m), corr |-> FillCorrelation(m)]

\* _on_order_response on the message m
OrderResponse(m) ==
    /\ ord_rx' = ord_rx + 1
    /\ fills_rx' = IF m.type = "FILL" THEN Append(fills_rx, Payload(m)) ELSE fills_rx
    /\ IF IsFill(m.type)
       THEN LET e == FillEffect(m) IN
            /\ inventory' = e.ledger.inventory
            /\ cash_flow' = e.ledger.cash_flow
            /\ pnl' = e.ledger.pnl
            /\ order_send_times' = e.corr.order_send_times
            /\ fill_latencies' = e.corr.fill_latencies
       ELSE UNCHANGED <<ledgerVars, order_send_times, fill_latencies>>
    /\ UNCHANGED <<client, manualVars, main_pc, sessionVars, market_ws, order_ws, running,
                   marketVars, orders_sent, last_done_time, step_latencies,
                   now, handlerVars>>

OnOrderResponse ==
    /\ client = "bot"
    /\ order_ws = "open"
    /\ Budget
    /\ \E m \in OrderMsgs : OrderResponse(m)

\* ManualTrader.on_order_message on the message m: lines 140-150 keep the
\* position in inventory and the cash in pnl
ManualOrderMessage(m) ==
    /\ ord_rx' = ord_rx + 1
    /\ fills_rx' = IF m.type = "FILL" THEN Append(fills_rx, Payload(m)) ELSE fills_rx
    /\ IF IsFill(m.type)
       THEN /\ inventory' = IF m.bad = "qty" THEN inventory
                            ELSE NewInventory(inventory, m.side, m.qty)
            /\ pnl' = IF m.bad # "none" THEN pnl
                      ELSE NewCashFlow(pnl, m.side, m.qty, m.price)
       ELSE UNCHANGED <<inventory, pnl>>
    /\ UNCHANGED <<client, manualVars, main_pc, sessionVars, market_ws, order_ws, running,
                   cash_flow, marketVars, orders_sent, latencyVars, now,
                   handlerVars>>

ManualOnOrderMessage ==
    /\ client = "manual"
    /\ order_ws = "open"
    /\ Budget
    /\ \E m \in OrderMsgs : ManualOrderMessage(m)

\* ---- market-data listener of ManualTrader

\* an order book: a list of levels, best first
Lvl(p, q) == [price |-> p, qty |-> q]
DeepBids == [i \in 1..(TopN + 1) |-> Lvl(21 - i, 1)]
ThinAsks == <<Lvl(21, 1)>>
BaseBook ==
    [type |-> "MARKET_DATA", step |-> 1, bids |-> DeepBids, asks |-> ThinAsks,
     last_trade |-> 20, bad |-> "none"]

\* the book with the quantity of one bid level changed
BidChanged(i) == [BaseBook EXCEPT !.bids[i].qty = 2]

\* the messages the market channel may deliver to ManualTrader: a book, the
\* same book with one thing changed (a bid level inside the displayed depth,
\* the bid level just below it, the ask level, the last trade, the step, the
\* type), and the messages that are no book
Books ==
    {BaseBook, BidChanged(1), BidChanged(TopN), BidChanged(TopN + 1),
     [BaseBook EXCEPT !.asks[1].price = 22],
     [BaseBook EXCEPT !.last_trade = 21],
     [BaseBook EXCEPT !.step = 2],
     [BaseBook EXCEPT !.type = "SNAPSHOT"]}
ManualMarketMsgs ==
    Books
    \cup {[BaseBook EXCEPT !.type = ty] : ty \in {"CONNECTED", "HEARTBEAT"}}
    \cup {[BaseBook EXCEPT !.bad = b] : b \in {"body", "bids"}}

\* on_market_message, lines 68-97.  json.loads (line 69) and the slice of
\* line 84 raise on a malformed payload before anything is assigned
ManualMarketMessage(m) ==
    /\ mkt_log' = Append(mkt_log,
           [tick |-> m.type \in TickTypes, bad |-> m.bad, decided |-> FALSE,
            sock |-> "unsent"])
    /\ IF m.bad = "none" /\ m.type \in TickTypes
       THEN /\ last_book' = m
            /\ IF SnapshotHash(m) # last_snapshot_hash
               THEN /\ displays' = displays + 1
                    /\ last_snapshot_hash' = SnapshotHash(m)
               ELSE UNCHANGED <<displays, last_snapshot_hash>>
       ELSE UNCHANGED <<last_book, displays, last_snapshot_hash>>
    /\ UNCHANGED <<client, cmds, main_pc, sessionVars, market_ws, order_ws,
                   running, ledgerVars, marketVars, orders_sent, latencyVars,
                   now, mkt_pc, mkt_order, mkt_id, wire, fills_rx, ord_rx>>

ManualOnMarketMessage ==
    /\ client = "manual"
    /\ market_ws = "open"
    /\ Budget
    /\ \E m \in ManualMarketMsgs : ManualMarketMessage(m)

\* ---- command loop of ManualTrader

Ticker == "SYM"

\* line 230: f"manual_{int(time.time()*1000)}"
ManualOrderId(t) == <<"manual_">> \o Str(t * MsPerSecond)

\* the command lines typed; bad marks a buy whose quantity is no number
Commands ==
    {[cmd |-> "step", qty |-> 0, price |-> 0, bad |-> "none"],
     [cmd |-> "cancel", qty |-> 0, price |-> 0, bad |-> "none"],
     [cmd |-> "buy", qty |-> 100, price |-> 10, bad |-> "none"],
     [cmd |-> "sell", qty |-> 100, price |-> 10, bad |-> "none"],
     [cmd |-> "buy", qty |-> 100, price |-> 10, bad |-> "qty"]}

\* the message a command sends, lines 217-249; none for an invalid number
CommandMsg(c, t) ==
    CASE c.bad # "none" -> <<>>
      [] c.cmd = "step" -> <<[action |-> "DONE"]>>
      [] c.cmd = "cancel" ->
            <<[type |-> "CANCEL_ORDER", order_id |-> ManualOrderId(0)]>>
      [] OTHER ->
            <<[type |-> "NEW_ORDER", order_id |-> ManualOrderId(t),
               ticker |-> Ticker, side |-> IF c.cmd = "buy" THEN "BUY" ELSE "SELL",
               price |-> c.price, qty |-> c.qty]>>

\* one turn of the loop of start, lines 200-251.  ws_order.send raises when
\* the socket is not connected; nothing in the loop catches that, so the
\* finally block of lines 255-258 runs and start ends
Command(c) ==
    LET out == CommandMsg(c, now) IN
    /\ cmds' = cmds + 1
    /\ IF out = <<>> \/ SendOk(order_ws)
       THEN /\ wire' = IF out = <<>> THEN wire
                       ELSE Append(wire, [tick |-> 0, msg |-> out[1]])
            /\ UNCHANGED <<main_pc, running, market_ws, order_ws>>
       ELSE /\ main_pc' = "crashed"
            /\ running' = FALSE
            /\ market_ws' = "closed"
            /\ order_ws' = "closed"
            /\ UNCHANGED wire
    /\ UNCHANGED <<client, last_snapshot_hash, displays, last_book, sessionVars,
                   ledgerVars, marketVars, orders_sent, latencyVars, now,
                   mkt_pc, mkt_order, mkt_id, mkt_log, fills_rx, ord_rx>>

ManualCommand ==
    /\ client = "manual"
    /\ main_pc = "running"
    /\ running
    /\ Budget
    /\ \E c \in Commands : Command(c)

\* ---- the session

Next ==
    \/ Register
    \/ Connect
    \/ Shutdown
    \/ MarketOpen
    \/ OrderOpen
    \/ MarketClose
    \/ OrderClose
    \/ Advance
    \/ OnMarketData
    \/ SendOrder
    \/ SendDone
    \/ OnOrderResponse
    \/ ManualOnOrderMessage
    \/ ManualOnMarketMessage
    \/ ManualCommand

Spec == Init /\ [][Next]_vars

\* ---- what the wire and the logs say

IsOrder(w) == "order_id" \in DOMAIN w.msg /\ "side" \in DOMAIN w.msg
IsDone(w) == "action" \in DOMAIN w.msg

\* the DONE signals and the orders on the wire that the handling of market
\* message number t sent
DoneCount(t) == Cardinality({i \in DOMAIN wire : IsDone(wire[i]) /\ wire[i].tick = t})
OrderCount(t) == Cardinality({i \in DOMAIN wire : IsOrder(wire[i]) /\ wire[i].tick = t})

\* the handler has returned from market message number t
Completed(t) == t < Len(mkt_log) \/ mkt_pc = "idle"

SignedQty(f) == IF f.side = "BUY" THEN f.qty ELSE -f.qty
SignedCash(f) == IF f.side = "BUY" THEN -(f.qty * f.price) ELSE f.qty * f.price

RECURSIVE SumQty(_)
SumQty(fs) ==
    IF fs = <<>> THEN 0
    ELSE SumQty(SubSeq(fs, 1, Len(fs) - 1)) + SignedQty(fs[Len(fs)])

RECURSIVE SumCash(_)
SumCash(fs) ==
    IF fs = <<>> THEN 0
    ELSE SumCash(SubSeq(fs, 1, Len(fs) - 1)) + SignedCash(fs[Len(fs)])

WellFormedFills == \A i \in DOMAIN fills_rx : fills_rx[i].bad = "none"

\* ---- claims

\* C1: in TradingBot, after any sequence of well-formed FILLs, interleaved
\* in any way with ticks and sends, inventory is the signed sum of the filled
\* quantities and cash_flow the signed sum of qty * price
C1_LedgerIsSumOfFills ==
    (client = "bot" /\ WellFormedFills) =>
        /\ inventory = SumQty(fills_rx)
        /\ cash_flow = SumCash(fills_rx)

C1_Witness ==
    /\ client = "bot"
    /\ Len(fills_rx) = 2
    /\ fills_rx[1].side = "BUY" /\ fills_rx[1].bad = "none"
    /\ fills_rx[2].side = "SELL" /\ fills_rx[2].bad = "none"
    /\ \E i \in DOMAIN wire : IsOrder(wire[i])
    /\ inventory = 50

\* C2 as claimed: every tick (SNAPSHOT or MARKET_DATA) the handler has
\* returned from has exactly one DONE on the wire
C2_ExactlyOneDonePerTick ==
    client = "bot" =>
    \A t \in DOMAIN mkt_log :
        (mkt_log[t].tick /\ Completed(t)) => DoneCount(t) = 1

\* C2 as amended: no tick ever has two DONEs; a tick the handler has
\* returned from has exactly one DONE when its payload was well-formed and
\* the order channel was open at the send, and none otherwise
C2_OneDoneWhenSendSucceeds ==
    client = "bot" =>
    \A t \in DOMAIN mkt_log :
        /\ DoneCount(t) <= 1
        /\ (mkt_log[t].tick /\ Completed(t)) =>
              DoneCount(t) = IF mkt_log[t].bad = "none" /\ mkt_log[t].sock = "open"
                             THEN 1 ELSE 0

C2_Witness ==
    /\ Len(mkt_log) = 2
    /\ mkt_pc = "idle"
    /\ mkt_log[1].tick /\ mkt_log[2].tick
    /\ OrderCount(1) = 1 /\ DoneCount(1) = 1
    /\ OrderCount(2) = 0 /\ DoneCount(2) = 1

\* C3 as claimed: whenever the strategy returned an order for a tick and a
\* DONE for that tick is on the wire, the order is on the wire before it
C3_OrderAlwaysBeforeDone ==
    client = "bot" =>
    \A j \in DOMAIN wire :
        (IsDone(wire[j]) /\ mkt_log[wire[j].tick].decided) =>
            \E i \in 1..(j - 1) : IsOrder(wire[i]) /\ wire[i].tick = wire[j].tick

\* C3 as amended: an order that is sent for a tick is on the wire before
\* that tick's DONE, and while a tick's order is still to be sent no DONE for
\* that tick is on the wire
C3_SentOrderBeforeDone ==
    client = "bot" =>
    /\ \A i, j \in DOMAIN wire :
          (IsOrder(wire[i]) /\ IsDone(wire[j]) /\ wire[i].tick = wire[j].tick) => i < j
    /\ mkt_pc \in {"order", "send"} => DoneCount(Len(mkt_log)) = 0

C3_Witness ==
    \E i, j \in DOMAIN wire :
        /\ i < j
        /\ IsOrder(wire[i]) /\ IsDone(wire[j])
        /\ wire[i].tick = wire[j].tick

\* C4: a step that changes inventory or cash_flow is the handling of a FILL
C4_LedgerChangedOnlyByFill ==
    [][(inventory' # inventory \/ cash_flow' # cash_flow) =>
          Len(fills_rx') = Len(fills_rx) + 1]_vars

C4_Witness ==
    /\ client = "bot"
    /\ main_pc = "finished"
    /\ orders_sent = 1
    /\ DoneCount(1) = 1
    /\ Len(fills_rx) = 1
    /\ ord_rx = 2
    /\ inventory = 100

\* C5: in TradingBot, right after a well-formed FILL is applied, pnl is
\* cash_flow + inventory * last_mid, last_mid being the mid of the latest
\* processed tick
C5_PnlMarkedAtFill ==
    [][(/\ client = "bot"
        /\ Len(fills_rx') = Len(fills_rx) + 1
        /\ fills_rx'[Len(fills_rx')].bad = "none") =>
            /\ last_mid' = last_mid
            /\ pnl' = cash_flow' + inventory' * last_mid']_vars

C5_Witness ==
    /\ client = "bot"
    /\ Len(fills_rx) = 2
    /\ fills_rx[1].side = "BUY" /\ fills_rx[1].qty = 100 /\ fills_rx[1].price = 10
    /\ fills_rx[2].side = "SELL" /\ fills_rx[2].qty = 50 /\ fills_rx[2].price = 11
    /\ WellFormedFills
    /\ last_mid = 11
    /\ inventory = 50
    /\ cash_flow = -450
    /\ pnl = 100

\* C6: in both clients a channel exists only after register() returned
\* success; after a failed registration neither channel is ever opened
C6_NoChannelBeforeRegistration ==
    (market_ws # "None" \/ order_ws # "None") => reg_result = "ok"

C6_Witness ==
    /\ reg_result = "ok"
    /\ market_ws = "open"
    /\ order_ws = "open"

\* C7 as claimed: register() succeeds only on a 200 response carrying both
\* a token and a run_id, so no channel is opened without them
C7_RegistrationNeedsTokenAndRunId ==
    /\ reg_result = "ok" =>
          (http_resp.status = HttpOk /\ Truthy(token) /\ Truthy(run_id))
    /\ (market_ws # "None" \/ order_ws # "None") => (Truthy(token) /\ Truthy(run_id))

\* C8: the order_ids of the orders TradingBot sent are pairwise distinct
C8_OrderIdsDistinct ==
    client = "bot" =>
    \A i, j \in DOMAIN wire :
        (IsOrder(wire[i]) /\ IsOrder(wire[j]) /\ i # j) =>
            wire[i].msg.order_id # wire[j].msg.order_id

C8_Witness ==
    /\ client = "bot"
    /\ orders_sent = 2
    /\ \E i, j \in DOMAIN wire :
          /\ i < j
          /\ IsOrder(wire[i]) /\ IsOrder(wire[j])
          /\ history[wire[i].tick].step = history[wire[j].tick].step

\* C9: in TradingBot, the handling of a FILL whose order_id is not in the
\* pending table leaves the table and the FILL samples as they were, and
\* leaves the order channel open and the session running
C9_UnmatchedFillLeavesTable ==
    [][\A m \in OrderMsgs :
          (/\ client = "bot"
           /\ m.type = "FILL"
           /\ m.order_id \notin DOMAIN order_send_times
           /\ OrderResponse(m)) =>
               /\ order_send_times' = order_send_times
               /\ fill_latencies' = fill_latencies
               /\ order_ws' = order_ws
               /\ running' = running]_vars

C9_Witness ==
    /\ client = "bot"
    /\ DOMAIN order_send_times # {}
    /\ Len(fills_rx) = 1
    /\ ord_rx = 2
    /\ fill_latencies = <<>>
    /\ order_ws = "open"

FillMsg(id, f) ==
    [type |-> "FILL", order_id |-> id, side |-> f.side, qty |-> f.qty,
     price |-> f.price, bad |-> f.bad]

\* C10: in every state of TradingBot, a FILL changes inventory and cash_flow
\* in the same way whether its order_id is in the pending table or not
C10_LedgerIgnoresCorrelation ==
    client = "bot" =>
        \A f \in FillPayloads :
            \A a \in DOMAIN order_send_times :
                \A b \in FillIds \ DOMAIN order_send_times :
                    LET ma == FillEffect(FillMsg(a, f)).ledger
                        mb == FillEffect(FillMsg(b, f)).ledger
                    IN  /\ ma.inventory = mb.inventory
                        /\ ma.cash_flow = mb.cash_flow

C10_Witness ==
    /\ client = "bot"
    /\ DOMAIN order_send_times # {}
    /\ fill_latencies = <<>>
    /\ Len(fills_rx) = 1
    /\ fills_rx[1].bad = "none"
    /\ inventory = SignedQty(fills_rx[1])
    /\ cash_flow = SignedCash(fills_rx[1])

\* the i-th level of a book, <<>> when the book is shorter
Level(levels, i) == IF i <= Len(levels) THEN levels[i] ELSE <<>>

\* two book messages agree on every one of the top 10 bid and ask levels, on
\* the last trade and on the step
SameTop(a, b) ==
    /\ \A i \in 1..TopN :
          /\ Level(a.bids, i) = Level(b.bids, i)
          /\ Level(a.asks, i) = Level(b.asks, i)
    /\ a.last_trade = b.last_trade
    /\ a.step = b.step

IsBook(m) == m.bad = "none" /\ m.type \in TickTypes

\* C11: in ManualTrader, a book message that agrees with the book message
\* before it on the top 10 bids and asks, the last trade and the step causes
\* no call of display_book, and one that differs from it causes exactly one
C11_DisplayOnlyOnChange ==
    [][\A m \in ManualMarketMsgs :
          (/\ client = "manual"
           /\ ManualMarketMessage(m)
           /\ IsBook(m)
           /\ last_book # NoBook)
          => displays' = displays + (IF SameTop(m, last_book) THEN 0 ELSE 1)]_vars

C11_Witness ==
    /\ client = "manual"
    /\ Len(mkt_log) = 3
    /\ \A t \in DOMAIN mkt_log : mkt_log[t].tick /\ mkt_log[t].bad = "none"
    /\ displays = 2
    /\ last_book = BidChanged(TopN)

DonesSent == Cardinality({i \in DOMAIN wire : IsDone(wire[i])})

\* C12: in TradingBot, the first message on the market channel gives no STEP
\* sample, and there are never more STEP samples than DONE signals sent
C12_StepSamplesFollowDones ==
    client = "bot" =>
        /\ Len(mkt_log) <= 1 => step_latencies = <<>>
        /\ Len(step_latencies) <= DonesSent

UnknownType(m) == m.type \notin {"CONNECTED", "SNAPSHOT", "MARKET_DATA"}

\* C13: on the market channel of either client, the handling of a message
\* whose type is neither CONNECTED, SNAPSHOT nor MARKET_DATA changes neither
\* the market state, the STEP samples nor the book fingerprint, puts nothing
\* on the wire and leaves the handler with nothing to send
C13_UnknownTypeIsNoOp ==
    [][/\ \A m \in MarketMsgs :
             (client = "bot" /\ UnknownType(m) /\ MarketData(m)) =>
                 /\ UNCHANGED <<marketVars, step_latencies, wire>>
                 /\ mkt_pc' = "idle"
       /\ \A m \in ManualMarketMsgs :
             (client = "manual" /\ UnknownType(m) /\ ManualMarketMessage(m)) =>
                 UNCHANGED <<last_snapshot_hash, displays, wire>>]_vars

\* C14: on the order channel of either client, the handling of a message
\* whose type is not FILL leaves inventory, cash_flow, pnl, the pending
\* table and the latency samples as they were, the order channel open and
\* running set
C14_NonFillLeavesLedger ==
    [][\A m \in OrderMsgs :
          (/\ m.type # "FILL"
           /\ \/ client = "bot" /\ OrderResponse(m)
              \/ client = "manual" /\ ManualOrderMessage(m))
          => /\ UNCHANGED <<ledgerVars, order_send_times, fill_latencies,
                            step_latencies>>
             /\ order_ws' = "open"
             /\ running' = running]_vars

\* a message that is no FILL and then a FILL were handled (two messages, one
\* FILL payload), the FILL reached the ledger, the channel is open
C14_Witness ==
    /\ ord_rx = 2
    /\ Len(fills_rx) = 1
    /\ fills_rx[1].side = "BUY" /\ fills_rx[1].qty = 100
    /\ fills_rx[1].price = 10 /\ fills_rx[1].bad = "none"
    /\ inventory = 100
    /\ order_ws = "open"
    /\ running

\* C15: in either client, the handling of a market message with a malformed
\* payload leaves current_step, last_bid, last_ask, last_mid, the history
\* and the STEP samples as they were
C15_MalformedTickDropped ==
    [][/\ \A m \in MarketMsgs :
             (client = "bot" /\ m.bad # "none" /\ MarketData(m)) =>
                 UNCHANGED <<marketVars, step_latencies>>
       /\ \A m \in ManualMarketMsgs :
             (client = "manual" /\ m.bad # "none" /\ ManualMarketMessage(m)) =>
                 UNCHANGED <<marketVars, step_latencies, last_snapshot_hash>>]_vars

NewOrderFields == {"type", "order_id", "ticker", "side", "price", "qty"}

\* C16: every order message on the wire carries type "NEW_ORDER", an
\* order_id, a ticker, a side that is BUY or SELL, a price and a qty
C16_OrdersHaveNewOrderShape ==
    \A i \in DOMAIN wire :
        IsOrder(wire[i]) =>
            /\ NewOrderFields \subseteq DOMAIN wire[i].msg
            /\ wire[i].msg.type = "NEW_ORDER"
            /\ wire[i].msg.side \in {"BUY", "SELL"}

LedgerOf == <<inventory, cash_flow, pnl>>

\* C17: in either client, once a channel is closed running is cleared, and
\* from then on running stays cleared, no channel is opened again, the
\* ledger is not updated and nothing is put on the wire
C17_CloseIsTerminal ==
    [][(market_ws = "closed" \/ order_ws = "closed") =>
          /\ ~running /\ ~running'
          /\ market_ws = "closed" => market_ws' = "closed"
          /\ order_ws = "closed" => order_ws' = "closed"
          /\ LedgerOf' = LedgerOf
          /\ wire' = wire]_vars

\* C18: in either client, a send on the order channel is attempted only
\* while the channel is open: no DONE was ever handed to a socket that was
\* not open, and no command ended the session by sending on one
C18_SendOnlyWhenOpen ==
    /\ \A t \in DOMAIN mkt_log : mkt_log[t].sock \in {"unsent", "open"}
    /\ main_pc # "crashed"

\* C19: in every state of a TradingBot session whose FILLs were well-formed,
\* pnl = cash_flow + inventory * last_mid
C19_PnlAlwaysMarkedToMid ==
    (client = "bot" /\ WellFormedFills) =>
        pnl = cash_flow + inventory * last_mid

\* C20: the order_ids of the buy and sell orders ManualTrader sent are
\* pairwise distinct
C20_ManualOrderIdsDistinct ==
    client = "manual" =>
        \A i, j \in DOMAIN wire :
            (IsOrder(wire[i]) /\ IsOrder(wire[j]) /\ i # j) =>
                wire[i].msg.order_id # wire[j].msg.order_id

\* the order_ids of the FILLs delivered so far
FilledIds == {fills_rx[i].order_id : i \in DOMAIN fills_rx}

\* C21: in TradingBot, under every interleaving of the two listeners, the
\* first FILL for an order this session sent finds the order's entry in the
\* pending table, appends exactly one FILL sample and removes the entry, and
\* a later FILL with the same order_id appends none
C21_FirstFillFindsEntry ==
    [][\A m \in OrderMsgs :
          (client = "bot" /\ m.type = "FILL" /\ OrderResponse(m)) =>
              /\ (m.order_id \in SentIds /\ m.order_id \notin FilledIds) =>
                    /\ m.order_id \in DOMAIN order_send_times
                    /\ Len(fill_latencies') = Len(fill_latencies) + 1
                    /\ m.order_id \notin DOMAIN order_send_times'
              /\ m.order_id \in FilledIds =>
                    fill_latencies' = fill_latencies]_vars

\* one order was sent, two FILLs named it, one sample was taken
C21_Witness ==
    /\ client = "bot"
    /\ orders_sent = 1
    /\ Len(fills_rx) = 2
    /\ \A i \in DOMAIN fills_rx : fills_rx[i].order_id \in SentIds
    /\ Len(fill_latencies) = 1
    /\ order_send_times = EmptyTable
    /\ now = 0 /\ Len(mkt_log) = 1

OrdersOn(w) == Cardinality({i \in DOMAIN w : IsOrder(w[i])})

\* C22: in TradingBot, a step that dispatches an order dispatches the only
\* order of the tick being handled, and the step that tick carried (which
\* current_step holds) is a multiple of 50 and the tick's bid, ask and mid
\* are positive
C22_OrderOnlyAtTradingStep ==
    [][(client = "bot" /\ OrdersOn(wire') > OrdersOn(wire)) =>
          /\ wire'[Len(wire')].tick = Len(mkt_log)
          /\ OrderCount(Len(mkt_log))' = 1
          /\ current_step % TradeEvery = 0
          /\ last_bid > 0 /\ last_ask > 0 /\ last_mid > 0]_vars

\* the first tick of the session carried step 50 and got an order; the
\* second carried step 7 and got none
C22_Witness ==
    /\ client = "bot"
    /\ mkt_pc = "idle"
    /\ Len(mkt_log) = 2 /\ Len(history) = 2
    /\ history[1].step = 50 /\ history[2].step = 7
    /\ OrderCount(1) = 1 /\ OrderCount(2) = 0
    /\ DoneCount(2) = 1

\* C23: in TradingBot, the handling of a well-formed tick leaves in last_mid
\* the average of the tick's bid and ask when both are positive, the one
\* positive side when only one is, and 0 when neither is
C23_MidOfLatestTick ==
    [][\A m \in MarketMsgs :
          (/\ client = "bot"
           /\ m.type \in TickTypes
           /\ m.bad = "none"
           /\ MarketData(m))
          => /\ (m.bid > 0 /\ m.ask > 0) => 2 * last_mid' = m.bid + m.ask
             /\ (m.bid > 0 /\ m.ask <= 0) => last_mid' = m.bid
             /\ (m.bid <= 0 /\ m.ask > 0) => last_mid' = m.ask
             /\ (m.bid <= 0 /\ m.ask <= 0) => last_mid' = 0]_vars

\* a tick with both sides, then one with only an ask, then one with neither
C23_Witness ==
    /\ client = "bot"
    /\ Len(history) = 3
    /\ history[1].bid = 10 /\ history[1].ask = 12 /\ history[1].mid = 11
    /\ history[2].bid = 0 /\ history[2].ask = 12 /\ history[2].mid = 12
    /\ history[3].bid = 0 /\ history[3].ask = 0 /\ history[3].mid = 0
    /\ last_mid = 0

\* C24: in either client, the handling of a FILL, well-formed or not, either
\* changes nothing of the ledger and the pending table, or updates inventory
\* and the cash (cash_flow and pnl in TradingBot, pnl in ManualTrader) by
\* that fill and removes the order's entry from the pending table
C24_FillIsAtomic ==
    [][\A m \in OrderMsgs :
          /\ (client = "bot" /\ m.type = "FILL" /\ OrderResponse(m)) =>
                \/ UNCHANGED <<ledgerVars, order_send_times, fill_latencies>>
                \/ /\ inventory' = inventory + SignedQty(m)
                   /\ cash_flow' = cash_flow + SignedCash(m)
                   /\ pnl' = cash_flow' + inventory' * last_mid
                   /\ m.order_id \notin DOMAIN order_send_times'
          /\ (client = "manual" /\ m.type = "FILL" /\ ManualOrderMessage(m)) =>
                \/ UNCHANGED <<inventory, pnl>>
                \/ /\ inventory' = inventory + SignedQty(m)
                   /\ pnl' = pnl + SignedCash(m)]_vars

\* C25: in every state of TradingBot in which the market handler is not in
\* the middle of a tick, each order_id in the pending table is the id of an
\* order that was sent and has had no FILL, and orders_sent is the number of
\* orders on the wire
C25_PendingAreSentUnfilled ==
    (client = "bot" /\ mkt_pc = "idle") =>
        /\ DOMAIN order_send_times \subseteq SentIds \ FilledIds
        /\ orders_sent = OrdersOn(wire)

====
